---- MODULE Spec2Model ----
(***************************************************************************)
(* State-machine model of the background service worker of the social feed *)
(* aggregator (src/chrome/js/background.js): the feed store unifiedFeed,    *)
(* the session registry monitoredTabs, the debounced save timer, the       *)
(* durable storage key unifiedFeed, the asynchronous startup load and the  *)
(* browser's tab and message events that drive the handlers.               *)
(***************************************************************************)
EXTENDS Integers, Sequences, FiniteSets, TLC

(***************************************************************************)
(* Bounds of the model.                                                    *)
(***************************************************************************)
\* Capacity of the feed store.  background.js:6 sets 500; the model runs the
\* same code with a small capacity so that eviction happens.
MAX_FEED_SIZE == 2
\* Tab ids handed out by the browser are 1..MaxTabs; an id is never reused.
MaxTabs == 2
\* scrapedAt values carried by a post are 1..MaxTime; its timestamp is the
\* oldest or the newest of these.
MaxTime == 2
\* Granularity, in ms, with which the passing of time is observed.
TICK_MS == 1000
\* An engagement counter read off a post is 0 or MaxCount.
MaxCount == 1
\* A scan finds at most MaxDom elements on the page.
MaxDom == 2
\* The text of a User-Name block has at most MaxText words and delimiters.
MaxText == 5
\* At most MaxClicks calls of the icon's listener are in progress at a time,
\* and the browser opens at most MaxFeedTabs feed tabs.
MaxClicks == 2
MaxFeedTabs == 3

\* Delay of the debounced save, background.js:174.
DEBOUNCE_MS == 2000

Tabs == 1..MaxTabs
Times == 1..MaxTime
\* What Date.now() reads while a session is registered: the first time.
FirstTime == CHOOSE t \in Times : \A u \in Times : t <= u
Timestamps == {1, MaxTime}

\* Post ids announced by producers: the empty id "" and enough others to
\* overfill the store.
IdNames == <<"", "a", "b", "c", "d", "e", "f", "g">>
Ids == {IdNames[i] : i \in 1..(MAX_FEED_SIZE + 1)}

\* URLs a tab can show: a timeline and a single-post page.
TimelineUrl == "https://x.com/home"
StatusUrl == "https://x.com/u/status/123"
Urls == {TimelineUrl, StatusUrl}

\* The URLs of SpecClassify: those of Urls, pages of the three platforms and
\* pages of other sites.
SearchUrl == "https://x.com/search?q=cats"
XProfileUrl == "https://x.com/jack"
BskyProfileUrl == "https://bsky.app/profile/alice"
MastodonHomeUrl == "https://mastodon.social/home"
MastodonProfileUrl == "https://mastodon.social/@alice"
OtherUrl == "https://example.org/news"
NetflixUrl == "https://netflix.com/browse"
ClassUrls == Urls \cup {SearchUrl, XProfileUrl, BskyProfileUrl, MastodonHomeUrl,
                        MastodonProfileUrl, OtherUrl, NetflixUrl}

\* The URLs of SpecRegistry: a monitorable page of each platform, the
\* mastodon one on a host that only the pattern of line 49 recognises, and
\* pages that are not monitorable.
BskyHomeUrl == "https://bsky.app/"
ExchangeUrl == "https://infosec.exchange/home"
RegistryUrls == Urls \cup {BskyHomeUrl, ExchangeUrl, MastodonProfileUrl,
                           OtherUrl, NetflixUrl}

\* Values that stand for JavaScript's null / undefined.
NoTimer == -1
NoTimestamp == -1
NotOpened == "not-opened"
Closed == "closed"
Open == "open"

\* The ids the browser gives to the feed tabs: each is used once, and none
\* is the id of a tab of Tabs.
FeedTabIds == 1..MaxFeedTabs

\* The record a NEW_POST message carries in message.data, before the
\* handler stamps it with the sender's tab id.
PostData == [id : Ids, scrapedAt : Times, timestamp : Timestamps]

\* The records whose post time is missing, is the epoch, or is the last time.
ViewData == [id : Ids, scrapedAt : Times, timestamp : {NoTimestamp, 0, MaxTime}]

\* Sort policies a GET_FEED carries: two the switch of getSortedFeed knows and
\* one it does not.
UnknownPolicy == "newest"
Policies == {"chronological", "chronological-old", UnknownPolicy}

\* The producers: the content scripts mastodon-scraper.js, twitter-scraper.js
\* and bluesky-scraper.js, by the platform they write into their records.
Producers == <<"mastodon", "twitter", "bluesky">>
ProducerNames == {Producers[k] : k \in 1..Len(Producers)}

\* The ids of the posts that the pages of the producers show.
PageIds == {"a"}

\* No tab: the ids of tabs are 1 and up.
NoTab == 0

VARIABLES
    unifiedFeed,    \* background.js:5   the in-memory feed store, a sequence
    monitoredTabs,  \* background.js:9   the Map, as its set of entries
                    \*                   [id, url, platform, lastUpdate]
    saveTimeout,    \* background.js:169 NoTimer, or ms left until the save fires
    storage,        \* chrome.storage.local: [has, unifiedFeed], has = the key is set
    loadPending,    \* loadFeedFromStorage is suspended at its await
    loadResult,     \* what the pending storage.get will resolve to
    installPending, \* an onInstalled event is queued for this start
    scanPending,    \* scanExistingTabs is suspended at its await
    scanResult,     \* what the pending tabs.query will resolve to
    tabs,           \* the browser: tab id -> NotOpened, a URL, or Closed
    notified,       \* what the last handler passed to notifyPopup
    handled,        \* the last listener or continuation that ran, and its locals
    unflushed,      \* observer: <<>>, or one record [post, age] that TickObserved
                    \* has seen in the store and missing from storage for age ms
    refresh,        \* background.js:249 the call of refreshAllTabs in progress:
                    \*                   [running, awaiting, visited, sent, failed]
    saveHealth,     \* observer: "failed" after a scheduled save that failed,
                    \* "healed" after a later one that succeeded, else "none"
    processed,      \* the producers' sets processedTweets, processedPosts and
                    \* processedToots (line 6 of each scraper), by producer
    sends,          \* observer: by producer and id, the NEW_POST messages sent
                    \* since the producer's set was last empty
    feedTabId,      \* background.js:320 NoTab for null, or a tab id
    feedTabs,       \* the browser: the tabs opened on views/feed.html, by id
                    \*              NotOpened, Open or Closed
    clicks          \* background.js:323 the calls of the onClicked listener in
                    \*                   progress, each [pc, id]: the await it is
                    \*                   suspended at and the tab id it passed

vars == <<unifiedFeed, monitoredTabs, saveTimeout, storage, loadPending,
          loadResult, installPending, scanPending, scanResult, tabs, notified,
          handled, unflushed, refresh, saveHealth, processed, sends,
          feedTabId, feedTabs, clicks>>

\* The state of the content scripts.
producerVars == <<processed, sends>>

\* The state of the feed tab and of the icon's listener.
iconVars == <<feedTabId, feedTabs, clicks>>

(***************************************************************************)
(* URL classification, background.js:40-79.  String.includes and           *)
(* String.match are modelled by the table of the substrings and patterns   *)
(* each modelled URL contains.                                             *)
(***************************************************************************)
Includes(url, needle) ==
    CASE url = TimelineUrl -> needle \in {"x.com"}
      [] url = StatusUrl -> needle \in {"x.com", "/status"}
      [] url = SearchUrl -> needle \in {"x.com", "/search"}
      [] url = XProfileUrl -> needle \in {"x.com"}
      [] url = BskyProfileUrl -> needle \in {"bsky.app", "/profile"}
      [] url = MastodonHomeUrl ->
            needle \in {"mastodon", "https?://[^/]+\\.(social|exchange)",
                        "\\.(social|exchange)"}
      [] url = MastodonProfileUrl ->
            needle \in {"mastodon", "https?://[^/]+\\.(social|exchange)",
                        "\\.(social|exchange)", "/@[\\w]+$"}
      [] url = NetflixUrl -> needle \in {"x.com"}
      [] url = BskyHomeUrl -> needle \in {"bsky.app"}
      [] url = ExchangeUrl ->
            needle \in {"https?://[^/]+\\.(social|exchange)",
                        "\\.(social|exchange)"}
      [] OTHER -> FALSE

\* The classifier that accepts every URL.
isSocialMediaTabAny(url) == url # ""

isSocialMediaTab(url) ==
    LET isTwitter == Includes(url, "twitter.com") \/ Includes(url, "x.com")
        isBlueSky == Includes(url, "bsky.app")
        isMastodon == \/ Includes(url, "mastodon")
                      \/ Includes(url, "fosstodon")
                      \/ Includes(url, "hachyderm")
                      \/ Includes(url, "https?://[^/]+\\.(social|exchange)")
    IN  /\ url # ""
        /\ isTwitter \/ isBlueSky \/ isMastodon
        /\ ~(\/ Includes(url, "/profile")
             \/ Includes(url, "/status")
             \/ Includes(url, "/post/")
             \/ Includes(url, "/trending/")
             \/ Includes(url, "/search"))
        /\ ~(isMastodon /\ Includes(url, "/@[\\w]+$"))

getPlatform(url) ==
    IF Includes(url, "twitter.com") \/ Includes(url, "x.com") THEN "twitter"
    ELSE IF Includes(url, "bsky.app") THEN "bluesky"
    ELSE IF \/ Includes(url, "mastodon") \/ Includes(url, "fosstodon")
            \/ Includes(url, "hachyderm")
            \/ Includes(url, "\\.(social|exchange)") THEN "mastodon"
    ELSE "unknown"

(***************************************************************************)
(* Session registry, background.js:82-106.                                 *)
(***************************************************************************)
\* monitoredTabs.has(tabId)
Monitored(reg, tabId) == \E e \in reg : e.id = tabId

\* monitoredTabs.set(tab.id, {url, platform, lastUpdate}); tab ids are >= 1
\* and the url is non-empty in every call the model makes.
monitorTab(reg, tabId, url) ==
    {e \in reg : e.id # tabId}
        \cup {[id |-> tabId, url |-> url, platform |-> getPlatform(url),
                lastUpdate |-> FirstTime]}

\* The listener of lines 296-301 when Date.now() reads now.
onActivated(reg, tabId, now) ==
    IF Monitored(reg, tabId)
    THEN {IF e.id = tabId THEN [e EXCEPT !.lastUpdate = now] ELSE e : e \in reg}
    ELSE reg

\* The filter with its test turned around.
cleanupTabPostsKeepsTab(feed, tabId) ==
    SelectSeq(feed, LAMBDA post : post.sourceTabId = tabId)

\* unifiedFeed.filter(post => post.sourceTabId !== tabId)
cleanupTabPosts(feed, tabId) ==
    SelectSeq(feed, LAMBDA post : post.sourceTabId # tabId)

\* The save that arms no timer.
saveFeedToStorageNever == NoTimer

\* What arming the debounce timer leaves in saveTimeout.
saveFeedToStorage == DEBOUNCE_MS

\* unmonitorTab without the test of line 99.
unmonitorTabAlways(st, tabId) ==
    [reg   |-> {e \in st.reg : e.id # tabId},
     feed  |-> cleanupTabPosts(st.feed, tabId),
     timer |-> saveFeedToStorage]

\* unmonitorTab on the state <<registry, feed, timer>>.
unmonitorTab(st, tabId) ==
    IF Monitored(st.reg, tabId)
    THEN [reg   |-> {e \in st.reg : e.id # tabId},
          feed  |-> cleanupTabPosts(st.feed, tabId),
          timer |-> saveFeedToStorage]
    ELSE st

(***************************************************************************)
(* Feed store, background.js:139-166.                                      *)
(***************************************************************************)
\* postData.sourceTabId = tabId: the record keeps every field it came with.
Stamp(postData, tabId) ==
    [f \in DOMAIN postData \cup {"sourceTabId"} |->
        IF f = "sourceTabId" THEN tabId ELSE postData[f]]

\* The lookup that never finds the id.
findIndexNever(feed, id) == 0

\* unifiedFeed.findIndex(p => p.id === id), 0 standing for -1.
findIndex(feed, id) ==
    IF \E i \in 1..Len(feed) : feed[i].id = id
    THEN CHOOSE i \in 1..Len(feed) :
            /\ feed[i].id = id
            /\ \A j \in 1..(i - 1) : feed[j].id # id
    ELSE 0

\* The comparator taking the post time for the scrape time.
ByTimestamp(a, b) == b.timestamp - a.timestamp

\* The comparator of line 160: (a, b) => b.scrapedAt - a.scrapedAt.
ByScrapedAt(a, b) == b.scrapedAt - a.scrapedAt

\* a.timestamp || a.scrapedAt (lines 193-194): a timestamp that is null or 0
\* is falsy.
TimeOf(post) ==
    IF post.timestamp \notin {NoTimestamp, 0} THEN post.timestamp ELSE post.scrapedAt

\* The comparators of lines 192-196 and 201-205.
NewestFirst(a, b) == TimeOf(b) - TimeOf(a)
OldestFirst(a, b) == TimeOf(a) - TimeOf(b)

\* a.engagement?.name || 0 (lines 210-221): the counter, or 0 when the
\* record has no engagement mapping or the mapping has no such counter.
Counter(post, name) ==
    IF "engagement" \in DOMAIN post /\ name \in DOMAIN post.engagement
    THEN post.engagement[name]
    ELSE 0

\* The sum that reads the likes alone.
EngagementOfLikes(post) == Counter(post, "likes")

\* The sum of lines 210-215 and 216-221.
EngagementOf(post) ==
    Counter(post, "likes") + Counter(post, "retweets") + Counter(post, "reposts")
        + Counter(post, "boosts") + Counter(post, "favorites")
        + Counter(post, "replies")

\* The comparator of lines 209-223.
ByEngagement(a, b) == EngagementOf(b) - EngagementOf(a)

\* a.platform, the string 'undefined' standing for the value of a field the
\* record lacks.
PlatformOf(post) == IF "platform" \in DOMAIN post THEN post.platform ELSE "undefined"

\* x.localeCompare(y) on the platform names, negative when x sorts first: the
\* names in their collation order.  An undefined argument is compared as the
\* string 'undefined'.
Collation == <<"bluesky", "mastodon", "twitter", "undefined">>
localeCompare(x, y) ==
    (CHOOSE i \in 1..Len(Collation) : Collation[i] = x)
        - (CHOOSE i \in 1..Len(Collation) : Collation[i] = y)

\* The comparator of lines 227-235, for the calls that return.
ByPlatform(a, b) ==
    IF PlatformOf(a) # PlatformOf(b)
    THEN localeCompare(PlatformOf(a), PlatformOf(b))
    ELSE TimeOf(b) - TimeOf(a)

\* The call of line 230 on an undefined a.platform raises a TypeError.
ByPlatformThrows(a, b) ==
    PlatformOf(a) # PlatformOf(b) /\ "platform" \notin DOMAIN a

\* The comparator functions passed to sort, by the name the model gives them.
Compare(cmp, a, b) ==
    CASE cmp = "ByScrapedAt" -> ByScrapedAt(a, b)
      [] cmp = "NewestFirst" -> NewestFirst(a, b)
      [] cmp = "OldestFirst" -> OldestFirst(a, b)
      [] cmp = "ByEngagement" -> ByEngagement(a, b)
      [] cmp = "ByPlatform" -> ByPlatform(a, b)

\* Array.prototype.sort with the comparator cmp, which is stable: an element
\* comes after the elements that compare less than it and after the equal
\* ones that preceded it in the array.
Sort(feed, cmp) ==
    LET n == Len(feed)
        Pos(i) == 1 + Cardinality({j \in 1..n :
                        \/ Compare(cmp, feed[j], feed[i]) < 0
                        \/ Compare(cmp, feed[j], feed[i]) = 0 /\ j < i})
    IN  [k \in 1..n |-> feed[CHOOSE i \in 1..n : Pos(i) = k]]

\* The upsert without the lookup: every record is pushed.
UpsertAlwaysPush(feed, post) == Append(feed, post)

\* The upsert that drops the stored record and pushes the new one.
UpsertMoveToEnd(feed, post) ==
    Append(SelectSeq(feed, LAMBDA p : p.id # post.id), post)

\* The upsert that leaves a stored record as it is.
UpsertKeepsStored(feed, post) ==
    IF findIndex(feed, post.id) >= 1 THEN feed ELSE Append(feed, post)

\* The upsert of lines 145-156.
Upsert(feed, post) ==
    LET existingIndex == findIndex(feed, post.id)
    IN  IF existingIndex >= 1
        THEN [feed EXCEPT ![existingIndex] = post]
        ELSE Append(feed, post)

\* The trim left out.
TrimNever(feed) == feed

\* The trim of lines 158-162.
Trim(feed) ==
    IF Len(feed) > MAX_FEED_SIZE
    THEN SubSeq(Sort(feed, "ByScrapedAt"), 1, MAX_FEED_SIZE)
    ELSE feed

\* The feed handleNewPost leaves.
handleNewPost(feed, postData, tabId) ==
    Trim(Upsert(feed, Stamp(postData, tabId)))

\* The notification sent for every NEW_POST.
NotifyAlways(feed, postData, tabId) ==
    <<[type |-> "FEED_UPDATED", newPost |-> Stamp(postData, tabId)]>>

\* What handleNewPost passes to notifyPopup: FEED_UPDATED for a new id.
NewPostNotification(feed, postData, tabId) ==
    IF findIndex(feed, postData.id) >= 1
    THEN <<>>
    ELSE <<[type |-> "FEED_UPDATED", newPost |-> Stamp(postData, tabId)]>>

\* The message handleNewPost served and its locals when it returns: whether
\* the record at existingIndex differed from the one that replaced it, and
\* the records the trim sliced off.
NewPostLocals(feed, postData, tabId) ==
    LET existingIndex == findIndex(feed, postData.id)
        upserted == Upsert(feed, Stamp(postData, tabId))
    IN  [type |-> "NEW_POST", tabId |-> tabId, id |-> postData.id,
         data |-> postData,
         existingIndex |-> existingIndex,
         changed |-> existingIndex >= 1 /\ feed[existingIndex] # Stamp(postData, tabId),
         evicted |-> IF Len(upserted) > MAX_FEED_SIZE
                     THEN SubSeq(Sort(upserted, "ByScrapedAt"),
                                 MAX_FEED_SIZE + 1, Len(upserted))
                     ELSE <<>>,
         responded |-> TRUE]

(***************************************************************************)
(* Sort engine, background.js:185-240.                                     *)
(***************************************************************************)
\* The switch of lines 189-237 on a copy of the feed; a policy that matches
\* no case leaves the copy as it is.
getSortedFeed(feed, sortBy) ==
    CASE sortBy = "chronological" -> Sort(feed, "NewestFirst")
      [] sortBy = "chronological-old" -> Sort(feed, "OldestFirst")
      [] sortBy = "engagement" -> Sort(feed, "ByEngagement")
      [] sortBy = "platform" -> Sort(feed, "ByPlatform")
      [] OTHER -> feed

\* getSortedFeed can raise: which pairs sort hands to the comparator, and in
\* which order, is the engine's choice, and the 'platform' comparator raises
\* on a pair whose first record lacks a platform that the second has.
getSortedFeedThrows(feed, sortBy) ==
    /\ sortBy = "platform"
    /\ \E i, j \in 1..Len(feed) : i # j /\ ByPlatformThrows(feed[i], feed[j])

\* The sort applied to the store itself.
StoreAfterSortInPlace(feed, sortBy) == getSortedFeed(feed, sortBy)

\* The store after getSortedFeed: line 187 copies it and the sort works on
\* the copy.
StoreAfterSort(feed, sortBy) == feed

\* Durable storage with the key unifiedFeed unset, and set to a feed.
NoKey == [has |-> FALSE, unifiedFeed |-> <<>>]

\* The write that stores an empty array whatever the feed.
StoredEmpty(feed) == [has |-> TRUE, unifiedFeed |-> <<>>]

Stored(feed) == [has |-> TRUE, unifiedFeed |-> feed]

\* The session Spec follows: the first tab.
TheTab == CHOOSE t \in Tabs : \A u \in Tabs : t <= u

OpenTabs == {t \in Tabs : tabs[t] \notin {NotOpened, Closed}}

(***************************************************************************)
(* The observer of unflushed records.  It follows one record of the store  *)
(* that durable storage does not hold and adds up, tick by tick, the time  *)
(* the record has spent there since it was last ingested.  It reads the    *)
(* program's state and writes none of it.                                  *)
(***************************************************************************)
\* The observed age is counted up to one tick past the debounce delay.
AgeCap == DEBOUNCE_MS + TICK_MS

\* The records of the feed that the value under the storage key lacks.
Unflushed(feed, stored) ==
    SelectSeq(feed, LAMBDA post : \A i \in 1..Len(stored.unifiedFeed) :
                                      stored.unifiedFeed[i] # post)

\* The observation, dropped once its record has left the feed.
StillStored(obs, feed) ==
    SelectSeq(obs, LAMBDA o : \E i \in 1..Len(feed) : feed[i] = o.post)

\* The observation after TICK_MS more: the followed record, if the store
\* still holds it and storage still lacks it, is that much older; otherwise
\* the first unflushed record of the store is followed from now on.
Observe(obs, feed, stored) ==
    LET waiting == Unflushed(feed, stored)
        kept == SelectSeq(obs, LAMBDA o : \E i \in 1..Len(waiting) : waiting[i] = o.post)
    IN  IF kept # <<>>
        THEN <<[post |-> kept[1].post,
                age |-> IF kept[1].age + TICK_MS > AgeCap THEN AgeCap
                        ELSE kept[1].age + TICK_MS]>>
        ELSE IF waiting # <<>>
        THEN <<[post |-> waiting[1], age |-> TICK_MS]>>
        ELSE <<>>

(***************************************************************************)
(* Refresh fan-out, background.js:248-259.  refreshAllTabs iterates over   *)
(* monitoredTabs.entries() and is suspended at the await of line 253 while *)
(* a send is in flight; the iterator is live, so it skips an entry deleted *)
(* meanwhile and reaches one added meanwhile.  The Map's insertion order   *)
(* is not modelled: the iterator takes any entry it has not visited.       *)
(***************************************************************************)
\* No call in progress, and none made yet.
Idle == [running |-> FALSE, awaiting |-> NoTab, visited |-> {}, sent |-> {},
         failed |-> {}]

\* The call after the iterator has advanced over the registry reg: it sends
\* RESCAN to the tab of the next entry and awaits the outcome, or returns
\* when no entry is left.
Advance(call, reg) ==
    LET remaining == {e.id : e \in reg} \ call.visited
    IN  IF remaining = {}
        THEN {[call EXCEPT !.running = FALSE, !.awaiting = NoTab, !.visited = {}]}
        ELSE {[call EXCEPT !.running = TRUE, !.awaiting = t,
                           !.visited = @ \cup {t}, !.sent = @ \cup {t}] :
                t \in remaining}

\* The loop that a failed send ends.
LoopContinuesIfSent(ok) == ok

\* Lines 251-257: the try around the send is inside the loop, so the loop
\* goes on whether the send was answered (ok) or rejected.
LoopContinues(ok) == TRUE

\* monitoredTabs.delete(tabId) under the iterator: when the entry of tabId is
\* gone from reg, one set later for the same tab is a new entry that the
\* iterator has yet to reach.
Forget(call, tabId, reg) ==
    IF Monitored(reg, tabId) THEN call ELSE [call EXCEPT !.visited = @ \ {tabId}]

(***************************************************************************)
(* Initial state: the extension has just been installed.  The top-level    *)
(* script has run (lines 5, 9, 169, 304): the stores are empty, the load   *)
(* is suspended on storage that holds no key yet, and onInstalled is       *)
(* queued.  The session the model follows may already be open.             *)
(***************************************************************************)
Init ==
    /\ unifiedFeed = <<>>
    /\ monitoredTabs = {}
    /\ saveTimeout = NoTimer
    /\ storage = NoKey
    /\ loadPending = TRUE
    /\ loadResult = NoKey
    /\ installPending = TRUE
    /\ scanPending = FALSE
    /\ scanResult = {}
    /\ tabs \in {f \in [Tabs -> {NotOpened} \cup Urls] :
                    \A t \in Tabs \ {TheTab} : f[t] = NotOpened}
    /\ notified = <<>>
    /\ handled = [type |-> "start"]
    /\ unflushed = <<>>
    /\ refresh = Idle
    /\ saveHealth = "none"
    /\ processed = [p \in ProducerNames |-> {}]
    /\ sends = [p \in ProducerNames |-> [id \in PageIds |-> 0]]
    /\ feedTabId = NoTab
    /\ feedTabs = [id \in FeedTabIds |-> NotOpened]
    /\ clicks = <<>>

(***************************************************************************)
(* Startup and persistence.                                                *)
(***************************************************************************)
\* chrome.runtime.onInstalled listener, lines 12-27: the storage write and
\* scanExistingTabs up to its await of chrome.tabs.query.
OnInstalled ==
    /\ installPending
    /\ installPending' = FALSE
    /\ storage' = Stored(<<>>)
    /\ scanPending' = TRUE
    /\ scanResult' = {[id |-> t, url |-> tabs[t]] : t \in OpenTabs}
    /\ notified' = <<>>
    /\ handled' = [type |-> "onInstalled"]
    /\ UNCHANGED <<unifiedFeed, monitoredTabs, saveTimeout, loadPending, loadResult, tabs,
                   unflushed>>
    /\ UNCHANGED <<refresh, saveHealth, producerVars, iconVars>>

\* loadFeedFromStorage after its await, lines 180-182.  An array read from
\* storage is truthy even when empty.
LoadComplete ==
    /\ loadPending
    /\ loadPending' = FALSE
    /\ loadResult' = NoKey
    /\ unifiedFeed' = IF loadResult.has THEN loadResult.unifiedFeed ELSE unifiedFeed
    /\ handled' = [type |-> "loadFeedFromStorage"]
    /\ unflushed' = StillStored(unflushed, unifiedFeed')
    /\ UNCHANGED <<monitoredTabs, saveTimeout, storage, installPending,
                   scanPending, scanResult, tabs, notified>>
    /\ UNCHANGED <<refresh, saveHealth, producerVars, iconVars>>

\* The loop of scanExistingTabs, lines 33-37, over the result of the query.
RECURSIVE ScanLoop(_, _)
ScanLoop(reg, found) ==
    IF found = {} THEN reg
    ELSE LET tab == CHOOSE e \in found : \A o \in found : e.id <= o.id
         IN  ScanLoop(IF isSocialMediaTab(tab.url)
                      THEN monitorTab(reg, tab.id, tab.url)
                      ELSE reg,
                      found \ {tab})

\* scanExistingTabs after its await.
ScanComplete ==
    /\ scanPending
    /\ scanPending' = FALSE
    /\ scanResult' = {}
    /\ monitoredTabs' = ScanLoop(monitoredTabs, scanResult)
    /\ handled' = [type |-> "scanExistingTabs"]
    /\ UNCHANGED <<unifiedFeed, saveTimeout, storage, loadPending, loadResult,
                   installPending, tabs, notified, unflushed>>
    /\ UNCHANGED <<refresh, saveHealth, producerVars, iconVars>>

\* Time passes while the debounce timer of line 172 is armed, unobserved.
Tick ==
    /\ saveTimeout > 0
    /\ saveTimeout' = IF saveTimeout > TICK_MS THEN saveTimeout - TICK_MS ELSE 0
    /\ UNCHANGED <<unifiedFeed, monitoredTabs, storage, loadPending, loadResult,
                   installPending, scanPending, scanResult, tabs, notified,
                   handled, unflushed>>
    /\ UNCHANGED <<refresh, saveHealth, producerVars, iconVars>>

\* Time passes as in Tick, and the observer looks at the store.
TickObserved ==
    /\ saveTimeout > 0
    /\ saveTimeout' = IF saveTimeout > TICK_MS THEN saveTimeout - TICK_MS ELSE 0
    /\ unflushed' = Observe(unflushed, unifiedFeed, storage)
    /\ UNCHANGED <<unifiedFeed, monitoredTabs, storage, loadPending, loadResult,
                   installPending, scanPending, scanResult, tabs, notified,
                   handled>>
    /\ UNCHANGED <<refresh, saveHealth, producerVars, iconVars>>

\* The timer callback of line 173.
SaveTimerFired ==
    /\ saveTimeout = 0
    /\ saveTimeout' = NoTimer
    /\ storage' = Stored(unifiedFeed)
    /\ handled' = [type |-> "saveTimeout", failed |-> FALSE]
    /\ UNCHANGED <<unifiedFeed, monitoredTabs, loadPending, loadResult,
                   installPending, scanPending, scanResult, tabs, notified,
                   unflushed>>
    /\ saveHealth' = IF saveHealth = "failed" THEN "healed" ELSE saveHealth
    /\ UNCHANGED <<refresh, producerVars, iconVars>>

\* The timer callback of line 173 when storage is unavailable: the promise of
\* chrome.storage.local.set is rejected and storage keeps what it held.  No
\* code awaits the promise or handles the rejection.
SaveTimerFailed ==
    /\ saveTimeout = 0
    /\ saveTimeout' = NoTimer
    /\ handled' = [type |-> "saveTimeout", failed |-> TRUE]
    /\ saveHealth' = "failed"
    /\ UNCHANGED <<unifiedFeed, monitoredTabs, storage, loadPending, loadResult,
                   installPending, scanPending, scanResult, tabs, notified,
                   unflushed, refresh, producerVars, iconVars>>

\* The browser stops the idle service worker and a later event starts it
\* again: the top-level script runs anew (lines 5, 9, 169, 304) and only
\* durable storage survives.  With update = TRUE the start is that of an
\* updated extension, for which the browser also queues onInstalled.
Restart(update) ==
    /\ ~installPending
    /\ unifiedFeed' = <<>>
    /\ monitoredTabs' = {}
    /\ saveTimeout' = NoTimer
    /\ loadPending' = TRUE
    /\ loadResult' = storage
    /\ installPending' = update
    /\ scanPending' = FALSE
    /\ scanResult' = {}
    /\ notified' = <<>>
    /\ handled' = [type |-> "start"]
    /\ unflushed' = <<>>
    /\ UNCHANGED <<storage, tabs>>
    /\ refresh' = Idle
    /\ feedTabId' = NoTab
    /\ clicks' = <<>>
    /\ UNCHANGED <<saveHealth, producerVars, feedTabs>>

(***************************************************************************)
(* Messages, background.js:115-137.  The browser dispatches onInstalled    *)
(* before the other events of a start.                                     *)
(***************************************************************************)
\* NEW_POST from the content script of tab tabId.
NewPost(tabId, postData) ==
    /\ ~installPending
    /\ tabId \in OpenTabs
    /\ unifiedFeed' = handleNewPost(unifiedFeed, postData, tabId)
    /\ notified' = NewPostNotification(unifiedFeed, postData, tabId)
    /\ saveTimeout' = saveFeedToStorage
    /\ handled' = NewPostLocals(unifiedFeed, postData, tabId)
    /\ unflushed' = StillStored(SelectSeq(unflushed, LAMBDA o : o.post.id # postData.id),
                                unifiedFeed')
    /\ UNCHANGED <<monitoredTabs, storage, loadPending, loadResult,
                   installPending, scanPending, scanResult, tabs>>
    /\ UNCHANGED <<refresh, saveHealth, producerVars, iconVars>>

\* NEW_POST whose message carries no data: line 142 assigns a property of
\* undefined, which raises a TypeError; the listener ends there, before
\* line 118 calls sendResponse.
NewPostNoRecord(tabId) ==
    /\ ~installPending
    /\ tabId \in OpenTabs
    /\ notified' = <<>>
    /\ handled' = [type |-> "NEW_POST", tabId |-> tabId, threw |-> "TypeError",
                    responded |-> FALSE]
    /\ UNCHANGED <<unifiedFeed, monitoredTabs, saveTimeout, storage, loadPending,
                   loadResult, installPending, scanPending, scanResult, tabs,
                   unflushed, refresh, saveHealth, producerVars, iconVars>>

\* OPEN_POST, lines 123-126: openPostInNewTab asks the browser for a new tab
\* and the listener responds; the tab arrives with its own onCreated event.
OpenPost ==
    /\ ~installPending
    /\ notified' = <<>>
    /\ handled' = [type |-> "OPEN_POST", responded |-> TRUE]
    /\ UNCHANGED <<unifiedFeed, monitoredTabs, saveTimeout, storage, loadPending,
                   loadResult, installPending, scanPending, scanResult, tabs,
                   unflushed, refresh, saveHealth, producerVars, iconVars>>

\* GET_FEED, lines 120-122: the response is the sorted copy.  When
\* getSortedFeed raises, the listener ends there and sendResponse is not
\* called.
GetFeed(sortBy) ==
    /\ ~installPending
    /\ notified' = <<>>
    /\ unifiedFeed' = StoreAfterSort(unifiedFeed, sortBy)
    /\ \E threw \in {b \in BOOLEAN : b => getSortedFeedThrows(unifiedFeed, sortBy)} :
          handled' = IF threw
                     THEN [type |-> "GET_FEED", sortBy |-> sortBy,
                           threw |-> "TypeError", responded |-> FALSE]
                     ELSE [type |-> "GET_FEED", sortBy |-> sortBy,
                           feed |-> getSortedFeed(unifiedFeed, sortBy),
                           responded |-> TRUE]
    /\ UNCHANGED <<monitoredTabs, saveTimeout, storage, loadPending,
                   loadResult, installPending, scanPending, scanResult, tabs,
                   unflushed>>
    /\ UNCHANGED <<refresh, saveHealth, producerVars, iconVars>>

\* CLEAR_FEED: clearFeed, lines 262-266.
ClearFeed ==
    /\ ~installPending
    /\ unifiedFeed' = <<>>
    /\ storage' = Stored(<<>>)
    /\ notified' = <<[type |-> "FEED_CLEARED"]>>
    /\ handled' = [type |-> "CLEAR_FEED", responded |-> TRUE]
    /\ unflushed' = <<>>
    /\ UNCHANGED <<monitoredTabs, saveTimeout, loadPending, loadResult,
                   installPending, scanPending, scanResult, tabs>>
    /\ UNCHANGED <<refresh, saveHealth, producerVars, iconVars>>

\* REFRESH_FEED, lines 127-130: refreshAllTabs runs up to its first await,
\* then the listener responds.  The model follows one call at a time.
RefreshFeed ==
    /\ ~installPending
    /\ ~refresh.running
    /\ refresh' \in Advance(Idle, monitoredTabs)
    /\ notified' = <<>>
    /\ handled' = [type |-> "REFRESH_FEED", responded |-> TRUE]
    /\ UNCHANGED <<unifiedFeed, monitoredTabs, saveTimeout, storage, loadPending,
                   loadResult, installPending, scanPending, scanResult, tabs,
                   unflushed, saveHealth, producerVars, iconVars>>

\* refreshAllTabs after its await: the send to refresh.awaiting was answered
\* (ok) or rejected, as it is for a tab that is closed or runs no listener;
\* the catch of lines 254-257 logs the rejection.
RefreshSettled(ok) ==
    /\ refresh.running
    /\ ok => refresh.awaiting \in OpenTabs
    /\ LET settled == [refresh EXCEPT !.failed = IF ok THEN @ ELSE @ \cup {refresh.awaiting}]
       IN  refresh' \in IF LoopContinues(ok)
                        THEN Advance(settled, monitoredTabs)
                        ELSE {[settled EXCEPT !.running = FALSE, !.awaiting = NoTab,
                                              !.visited = {}]}
    /\ handled' = [type |-> "refreshAllTabs", tabId |-> refresh.awaiting,
                    failed |-> ~ok]
    /\ UNCHANGED <<unifiedFeed, monitoredTabs, saveTimeout, storage, loadPending,
                   loadResult, installPending, scanPending, scanResult, tabs,
                   notified, unflushed, saveHealth, producerVars, iconVars>>

\* The two listeners with the second unmonitorTab lacking the test of line 99.
onRemovedSecondUnguarded(st, tabId) ==
    unmonitorTabAlways(unmonitorTab(st, tabId), tabId)

\* The two chrome.tabs.onRemoved listeners, lines 285-287 and 349-356, in the
\* order of their registration: each calls unmonitorTab.
onRemoved(st, tabId) ==
    unmonitorTab(unmonitorTab(st, tabId), tabId)

(***************************************************************************)
(* Tab events, background.js:275-293 and 348-356.                          *)
(***************************************************************************)
\* chrome.tabs.onCreated: the browser opens tab tabId on url.
TabCreated(tabId, url) ==
    /\ ~installPending
    /\ tabs[tabId] = NotOpened
    /\ tabs' = [tabs EXCEPT ![tabId] = url]
    /\ monitoredTabs' = IF isSocialMediaTab(url)
                        THEN monitorTab(monitoredTabs, tabId, url)
                        ELSE monitoredTabs
    /\ notified' = <<>>
    /\ handled' = [type |-> "onCreated", tabId |-> tabId]
    /\ UNCHANGED <<unifiedFeed, saveTimeout, storage, loadPending, loadResult,
                   installPending, scanPending, scanResult, unflushed>>
    /\ UNCHANGED <<refresh, saveHealth, producerVars, iconVars>>

\* The listener without its else branch.
onUpdatedMonitorsOnly(st, tabId, changeInfo, tabUrl) ==
    IF changeInfo.status = "complete" /\ isSocialMediaTab(tabUrl)
    THEN [st EXCEPT !.reg = monitorTab(st.reg, tabId, tabUrl)]
    ELSE st

\* The listener of lines 276-283 for a changeInfo [status, url], "" standing
\* for an absent field, on a tab that now shows tabUrl.
onUpdated(st, tabId, changeInfo, tabUrl) ==
    IF changeInfo.status = "complete" /\ isSocialMediaTab(tabUrl)
    THEN [st EXCEPT !.reg = monitorTab(st.reg, tabId, tabUrl)]
    ELSE IF changeInfo.url # "" /\ ~isSocialMediaTab(changeInfo.url)
    THEN unmonitorTab(st, tabId)
    ELSE st

\* The state the tab listeners work on.
Engine == [reg |-> monitoredTabs, feed |-> unifiedFeed, timer |-> saveTimeout]

\* chrome.tabs.onUpdated: tab tabId navigates to url (changeInfo.url).
TabNavigated(tabId, url) ==
    /\ ~installPending
    /\ tabId \in OpenTabs
    /\ tabs' = [tabs EXCEPT ![tabId] = url]
    /\ LET st == onUpdated(Engine, tabId, [status |-> "loading", url |-> url], url)
       IN  /\ monitoredTabs' = st.reg
           /\ unifiedFeed' = st.feed
           /\ saveTimeout' = st.timer
    /\ notified' = <<>>
    /\ handled' = [type |-> "onUpdated", tabId |-> tabId,
                    monitored |-> Monitored(monitoredTabs, tabId),
                    removed |-> Len(unifiedFeed) - Len(unifiedFeed')]
    /\ unflushed' = StillStored(unflushed, unifiedFeed')
    /\ UNCHANGED <<storage, loadPending, loadResult, installPending,
                   scanPending, scanResult>>
    /\ refresh' = Forget(refresh, tabId, monitoredTabs')
    /\ UNCHANGED <<saveHealth, producerVars, iconVars>>

\* chrome.tabs.onUpdated: tab tabId finishes loading (changeInfo.status).
TabLoaded(tabId) ==
    /\ ~installPending
    /\ tabId \in OpenTabs
    /\ LET st == onUpdated(Engine, tabId, [status |-> "complete", url |-> ""], tabs[tabId])
       IN  /\ monitoredTabs' = st.reg
           /\ unifiedFeed' = st.feed
           /\ saveTimeout' = st.timer
    /\ notified' = <<>>
    /\ handled' = [type |-> "onUpdated", tabId |-> tabId,
                    monitored |-> Monitored(monitoredTabs, tabId),
                    removed |-> Len(unifiedFeed) - Len(unifiedFeed')]
    /\ UNCHANGED <<storage, loadPending, loadResult, installPending,
                   scanPending, scanResult, tabs, unflushed>>
    /\ UNCHANGED <<refresh, saveHealth, producerVars, iconVars>>

\* chrome.tabs.onRemoved: tab tabId is closed.  Both registered listeners
\* (lines 285-287 and 349-356) run, each calling unmonitorTab.
TabRemoved(tabId) ==
    /\ ~installPending
    /\ tabId \in OpenTabs
    /\ tabs' = [tabs EXCEPT ![tabId] = Closed]
    /\ LET st == onRemoved(Engine, tabId)
       IN  /\ monitoredTabs' = st.reg
           /\ unifiedFeed' = st.feed
           /\ saveTimeout' = st.timer
    /\ notified' = <<>>
    /\ handled' = [type |-> "onRemoved", tabId |-> tabId,
                    monitored |-> Monitored(monitoredTabs, tabId),
                    removed |-> Len(unifiedFeed) - Len(unifiedFeed')]
    /\ unflushed' = StillStored(unflushed, unifiedFeed')
    /\ UNCHANGED <<storage, loadPending, loadResult, installPending,
                   scanPending, scanResult>>
    /\ refresh' = Forget(refresh, tabId, monitoredTabs')
    /\ UNCHANGED <<saveHealth, producerVars, iconVars>>

\* chrome.tabs.onActivated: tab tabId gets the focus when Date.now() reads now.
OnActivated(tabId, now) ==
    /\ ~installPending
    /\ tabId \in OpenTabs
    /\ monitoredTabs' = onActivated(monitoredTabs, tabId, now)
    /\ notified' = <<>>
    /\ handled' = [type |-> "onActivated", tabId |-> tabId,
                    monitored |-> Monitored(monitoredTabs, tabId)]
    /\ UNCHANGED <<unifiedFeed, saveTimeout, storage, loadPending, loadResult,
                   installPending, scanPending, scanResult, tabs, unflushed>>
    /\ UNCHANGED <<refresh, saveHealth, producerVars, iconVars>>

(***************************************************************************)
(* Producers: the content scripts twitter-scraper.js (src/unnamed/part_001) *)
(* bluesky-scraper.js (src/unnamed/part_002) and mastodon-scraper.js, each  *)
(* for the life of one page.  The initial scan, the debounced scan of the  *)
(* mutation observer, the scan on visibility and the periodic scan all     *)
(* call the same scan function.                                            *)
(***************************************************************************)
\* The elements a scan can find: one without a permalink, one whose
\* permalink yields no id, and, ordinary or promoted, one for each post.
Elements ==
    {[link |-> "none", id |-> "", ad |-> FALSE],
     [link |-> "other", id |-> "", ad |-> FALSE]}
        \cup [link : {"post"}, id : PageIds, ad : BOOLEAN]

\* What querySelectorAll returns to a scan.
Doms == UNION {[1..n -> Elements] : n \in 0..MaxDom}

\* The id the regular expression takes from the permalink (part_001:85,
\* part_002:72-77, mastodon-scraper.js:43-46), "" when it does not match.
ExtractedId(el) == IF el.link = "post" THEN el.id ELSE ""

\* The test that lets every id pass.
HasIdAlways(id) == TRUE

\* !tweetId, !postMatch, !tootMatch: the extraction gave an id.
HasId(id) == id # ""

\* The test that finds no id in the set.
SeenNever(seen, id) == FALSE

\* processedTweets.has(tweetId), and likewise in the other two.
Seen(seen, id) == id \in seen

\* extractTweetData, extractPostData and extractTootData: <<>> for null, or
\* the record, of which the model keeps the id and the platform.  Only the
\* twitter producer skips promoted posts (part_001:93-99).
extract(producer, seen, el) ==
    IF el.link = "none" THEN <<>>
    ELSE IF ~HasId(ExtractedId(el)) \/ Seen(seen, ExtractedId(el)) THEN <<>>
    ELSE IF producer = "twitter" /\ el.ad THEN <<>>
    ELSE <<[id |-> ExtractedId(el), platform |-> producer]>>

\* The forEach of the scan functions: each element is extracted against the
\* set as the elements before it left it, and each record is sent.
RECURSIVE scanLoop(_, _, _, _)
scanLoop(producer, seen, sent, dom) ==
    IF dom = <<>> THEN [processed |-> seen, sent |-> sent]
    ELSE LET data == extract(producer, seen, Head(dom))
         IN  scanLoop(producer,
                      IF data = <<>> THEN seen ELSE seen \cup {data[1].id},
                      sent \o data, Tail(dom))

\* The number of records of sent that carry id.
Count(sent, id) == Cardinality({i \in 1..Len(sent) : sent[i].id = id})

\* The ids the permalinks of dom show, and whether dom has an element that
\* shows none: what a step records of the page it scanned.
Shown(dom) == {dom[i].id : i \in {j \in 1..Len(dom) : dom[j].link = "post"}}
Dropped(dom) == \E i \in 1..Len(dom) : dom[i].link # "post"

\* scanForTweets, scanForPosts and scanForToots on a page that shows dom.
Scan(producer, dom) ==
    /\ LET out == scanLoop(producer, processed[producer], <<>>, dom)
       IN  /\ processed' = [processed EXCEPT ![producer] = out.processed]
           /\ sends' = [sends EXCEPT ![producer] =
                            [id \in PageIds |->
                                IF @[id] + Count(out.sent, id) > 1 THEN 2
                                ELSE @[id] + Count(out.sent, id)]]
           /\ handled' = [type |-> "scan", producer |-> producer,
                           shown |-> Shown(dom), dropped |-> Dropped(dom),
                           sent |-> out.sent]
    /\ UNCHANGED <<unifiedFeed, monitoredTabs, saveTimeout, storage, loadPending,
                   loadResult, installPending, scanPending, scanResult, tabs,
                   notified, unflushed, refresh, saveHealth, iconVars>>

\* The observer of part_002:367-377 and mastodon-scraper.js:290-300 sees
\* that location.href has changed and clears the set.  The twitter producer
\* has no such observer.
UrlChanged(producer) ==
    /\ producer \in {"bluesky", "mastodon"}
    /\ processed' = [processed EXCEPT ![producer] = {}]
    /\ sends' = [sends EXCEPT ![producer] = [id \in PageIds |-> 0]]
    /\ handled' = [type |-> "urlchange", producer |-> producer]
    /\ UNCHANGED <<unifiedFeed, monitoredTabs, saveTimeout, storage, loadPending,
                   loadResult, installPending, scanPending, scanResult, tabs,
                   notified, unflushed, refresh, saveHealth, iconVars>>

(***************************************************************************)
(* The extension icon, background.js:319-356.  The listener is an async    *)
(* function: each await is a step of its own, and an API promise resolves  *)
(* when the tab it names is open and rejects when it is not.               *)
(***************************************************************************)
\* The call that has reached line 340: after the test of line 325 failed, or
\* after the catch of lines 333-336, which resets feedTabId.
Creating == [pc |-> "create", id |-> NoTab]

\* The sequence calls without its i-th element.
Without(calls, i) == SubSeq(calls, 1, i - 1) \o SubSeq(calls, i + 1, Len(calls))

\* A click on the icon: the listener runs to its first await, tabs.update
\* of the feed tab (line 328) or tabs.create (line 340).
IconClicked ==
    /\ ~installPending
    /\ Len(clicks) < MaxClicks
    /\ clicks' = Append(clicks, IF feedTabId # NoTab
                                 THEN [pc |-> "update", id |-> feedTabId]
                                 ELSE Creating)
    /\ handled' = [type |-> "onClicked", pc |-> "start", had |-> feedTabId # NoTab]
    /\ UNCHANGED <<unifiedFeed, monitoredTabs, saveTimeout, storage, loadPending,
                   loadResult, installPending, scanPending, scanResult, tabs,
                   notified, unflushed, refresh, saveHealth, producerVars,
                   feedTabId, feedTabs>>

\* tabs.update settles.  Resolved, the listener calls tabs.get(feedTabId)
\* with what feedTabId holds now (line 330), which throws at once for null;
\* rejected or thrown, the catch runs.
UpdateSettled(i) ==
    /\ i \in 1..Len(clicks)
    /\ clicks[i].pc = "update"
    /\ LET resolved == feedTabs[clicks[i].id] = Open /\ feedTabId # NoTab
       IN  /\ clicks' = [clicks EXCEPT ![i] = IF resolved
                                              THEN [pc |-> "get", id |-> feedTabId]
                                              ELSE Creating]
           /\ feedTabId' = IF resolved THEN feedTabId ELSE NoTab
           /\ handled' = [type |-> "onClicked", pc |-> "update", caught |-> ~resolved]
    /\ UNCHANGED <<unifiedFeed, monitoredTabs, saveTimeout, storage, loadPending,
                   loadResult, installPending, scanPending, scanResult, tabs,
                   notified, unflushed, refresh, saveHealth, producerVars,
                   feedTabs>>

\* tabs.get settles: resolved, the listener calls windows.update (line 331).
GetSettled(i) ==
    /\ i \in 1..Len(clicks)
    /\ clicks[i].pc = "get"
    /\ LET resolved == feedTabs[clicks[i].id] = Open
       IN  /\ clicks' = [clicks EXCEPT ![i] = IF resolved
                                              THEN [pc |-> "focus", id |-> @.id]
                                              ELSE Creating]
           /\ feedTabId' = IF resolved THEN feedTabId ELSE NoTab
           /\ handled' = [type |-> "onClicked", pc |-> "get", caught |-> ~resolved]
    /\ UNCHANGED <<unifiedFeed, monitoredTabs, saveTimeout, storage, loadPending,
                   loadResult, installPending, scanPending, scanResult, tabs,
                   notified, unflushed, refresh, saveHealth, producerVars,
                   feedTabs>>

\* windows.update settles: resolved, the listener returns (line 332).
FocusSettled(i) ==
    /\ i \in 1..Len(clicks)
    /\ clicks[i].pc = "focus"
    /\ LET resolved == feedTabs[clicks[i].id] = Open
       IN  /\ clicks' = IF resolved THEN Without(clicks, i)
                         ELSE [clicks EXCEPT ![i] = Creating]
           /\ feedTabId' = IF resolved THEN feedTabId ELSE NoTab
           /\ handled' = [type |-> "onClicked", pc |-> "focus", caught |-> ~resolved]
    /\ UNCHANGED <<unifiedFeed, monitoredTabs, saveTimeout, storage, loadPending,
                   loadResult, installPending, scanPending, scanResult, tabs,
                   notified, unflushed, refresh, saveHealth, producerVars,
                   feedTabs>>

\* The browser opens the tab that tabs.create asked for (line 340).
FeedTabOpened(i) ==
    /\ i \in 1..Len(clicks)
    /\ clicks[i].pc = "create"
    /\ \E id \in FeedTabIds :
          /\ feedTabs[id] = NotOpened
          /\ \A other \in FeedTabIds : feedTabs[other] = NotOpened => id <= other
          /\ feedTabs' = [feedTabs EXCEPT ![id] = Open]
          /\ clicks' = [clicks EXCEPT ![i] = [pc |-> "created", id |-> id]]
          /\ handled' = [type |-> "tabs.create", tabId |-> id]
    /\ UNCHANGED <<unifiedFeed, monitoredTabs, saveTimeout, storage, loadPending,
                   loadResult, installPending, scanPending, scanResult, tabs,
                   notified, unflushed, refresh, saveHealth, producerVars,
                   feedTabId>>

\* tabs.create resolves and the listener stores the id (line 345).
CreateResolved(i) ==
    /\ i \in 1..Len(clicks)
    /\ clicks[i].pc = "created"
    /\ feedTabId' = clicks[i].id
    /\ clicks' = Without(clicks, i)
    /\ handled' = [type |-> "onClicked", pc |-> "created", caught |-> FALSE]
    /\ UNCHANGED <<unifiedFeed, monitoredTabs, saveTimeout, storage, loadPending,
                   loadResult, installPending, scanPending, scanResult, tabs,
                   notified, unflushed, refresh, saveHealth, producerVars,
                   feedTabs>>

\* chrome.tabs.onRemoved for a feed tab: the listener of lines 349-356
\* resets feedTabId if it holds this id; the unmonitorTab of both listeners
\* finds no session, the id being none of Tabs.
FeedTabClosed(id) ==
    /\ ~installPending
    /\ id \in FeedTabIds
    /\ feedTabs[id] = Open
    /\ feedTabs' = [feedTabs EXCEPT ![id] = Closed]
    /\ feedTabId' = IF id = feedTabId THEN NoTab ELSE feedTabId
    /\ handled' = [type |-> "onRemoved", tabId |-> id, monitored |-> FALSE,
                    removed |-> 0]
    /\ UNCHANGED <<unifiedFeed, monitoredTabs, saveTimeout, storage, loadPending,
                   loadResult, installPending, scanPending, scanResult, tabs,
                   notified, unflushed, refresh, saveHealth, producerVars,
                   clicks>>

(***************************************************************************)
(* The timestamp of a tweet, src/unnamed/part_001:31-74 and 113-151.       *)
(* A text is a sequence of words and delimiters, a fragment of it a         *)
(* sequence of words; the texts of the model have no line breaks.          *)
(***************************************************************************)
\* The word that parseRelativeTime matches, an hour ago, and one that it does
\* not match.
RelativeWord == "1h"
OtherWord == "Jack"
\* The delimiters: the middle dot U+00B7, the at sign and the line break.
MiddleDot == "middle dot"
AtSign == "@"
LineBreak == "\n"
TextItems == {MiddleDot, AtSign, OtherWord, RelativeWord}
Texts == UNION {[1..n -> TextItems] : n \in 0..MaxText}

\* What article.querySelector('div[data-testid="User-Name"]') returns: no
\* element, or one with a textContent.
UserNameDivs ==
    {[present |-> FALSE, text |-> <<>>]} \cup [present : {TRUE}, text : Texts]

\* The datetime attribute of the time element: NoTimestamp when the element
\* or the attribute is missing.
Datetimes == {NoTimestamp} \cup Times

\* The values the variable timestamp takes: null, a number or a string.
Null == [kind |-> "null", num |-> 0, text |-> <<>>]
Number(n) == [kind |-> "number", num |-> n, text |-> <<>>]
String(t) == [kind |-> "string", num |-> 0, text |-> t]
Truthy(v) == \/ v.kind = "number" /\ v.num # 0
             \/ v.kind = "string" /\ v.text # <<>>

\* text.split(delims).map(s => s.trim()).filter(s => s.length > 0)
RECURSIVE splitLoop(_, _, _, _)
splitLoop(text, delims, cur, out) ==
    LET closed == IF cur # <<>> THEN Append(out, cur) ELSE out
    IN  IF text = <<>> THEN closed
        ELSE IF Head(text) \in delims
        THEN splitLoop(Tail(text), delims, <<>>, closed)
        ELSE splitLoop(Tail(text), delims, Append(cur, Head(text)), out)

split(text, delims) == splitLoop(text, delims, <<>>, <<>>)

\* parts[3] || parts[2] || '', the indices counting from 0.
ThirdOrSecond(parts) ==
    IF Len(parts) >= 4 THEN parts[4]
    ELSE IF Len(parts) >= 3 THEN parts[3]
    ELSE <<>>

\* parseRelativeTime when Date.now() reads now: now for an empty string and
\* for one without a match, else now less the time matched.
parseRelativeTime(timeString, now) ==
    IF timeString = <<>> THEN now
    ELSE IF \E i \in 1..Len(timeString) : timeString[i] = RelativeWord
    THEN now - 1
    ELSE now

\* The variable timestamp when the record is built: set from the datetime
\* attribute (lines 121-128), then from the User-Name text split at line
\* breaks and dots (lines 131-139), then from parseRelativeTime if it is
\* falsy (lines 140-150).
extractTimestamp(datetime, userNamesDiv, now) ==
    LET read == IF datetime # NoTimestamp THEN Number(datetime) ELSE Null
        parts == split(userNamesDiv.text, {LineBreak, MiddleDot})
        userText == split(userNamesDiv.text, {LineBreak, MiddleDot, AtSign})
        named == IF userNamesDiv.present THEN String(ThirdOrSecond(parts)) ELSE read
    IN  IF userNamesDiv.present /\ ~Truthy(named)
        THEN Number(parseRelativeTime(ThirdOrSecond(userText), now))
        ELSE named

\* extractTweetData on the article the scan has found, as far as the
\* timestamp of the record; Date.now() reads MaxTime.
ExtractTimestamp ==
    /\ handled.type = "article"
    /\ handled' = [type |-> "extractTweetData", datetime |-> handled.datetime,
                    userNamesDiv |-> handled.userNamesDiv,
                    timestamp |-> extractTimestamp(handled.datetime,
                                                   handled.userNamesDiv, MaxTime)]
    /\ UNCHANGED <<unifiedFeed, monitoredTabs, saveTimeout, storage, loadPending,
                   loadResult, installPending, scanPending, scanResult, tabs,
                   notified, unflushed, refresh, saveHealth, producerVars, iconVars>>

(***************************************************************************)
(* The environments that drive the handlers.                               *)
(*                                                                         *)
(* Spec is the whole life of the service worker around one session:       *)
(* install and update, startup load, debounced saves, restarts, GET_FEED,  *)
(* and the session's tab events and posts.                                 *)
(*                                                                         *)
(* SpecPersist is the feed store and its durable copy around one session:  *)
(* every operation that writes unifiedFeed or the storage key, from the    *)
(* installed and loaded worker on.                                         *)
(*                                                                         *)
(* SpecCascade is the feed store under the posts and the ends of every     *)
(* session of Tabs while the worker stays up.                              *)
(*                                                                         *)
(* SpecDebounce is the debounced save of a worker that stays up, with the  *)
(* passing of time observed: every arrival pattern of the posts of one     *)
(* session, and the end of the session, against the save timer.            *)
(*                                                                         *)
(* SpecSession is the registry and the feed store under the tab events of  *)
(* every session of Tabs, on monitorable and other URLs, and their posts,  *)
(* while the worker stays up; each session announces one post of its own,  *)
(* and an activation reads the last time of Times.                         *)
(*                                                                         *)
(* SpecView is GET_FEED under every policy of Policies on the stores that   *)
(* the payloads of ViewData from one session build.                        *)
(*                                                                         *)
(* SpecUpsert is the feed store under every payload of PostData from one   *)
(* session while the worker stays up.                                      *)
(*                                                                         *)
(* SpecEngagement is GET_FEED 'engagement' on the stores that the payloads *)
(* of EngagementData from one session build.                               *)
(*                                                                         *)
(* SpecPlatform is GET_FEED 'platform' on the stores that the payloads of  *)
(* PlatformData from one session build.                                    *)
(*                                                                         *)
(* SpecReadOnly is GET_FEED under every policy of AllPolicies while one     *)
(* session is registered, its posts of FullData arrive and the save timer  *)
(* runs.                                                                   *)
(*                                                                         *)
(* SpecRefresh is REFRESH_FEED and its fan-out, answered or rejected by    *)
(* each tab, while the sessions of Tabs open, post and close.              *)
(*                                                                         *)
(* SpecSaveFail is the debounced save of a worker that stays up when the   *)
(* write of any scheduled save can fail, under the posts and the end of    *)
(* one session.                                                            *)
(*                                                                         *)
(* SpecRouter is the message listener under the five message types, with   *)
(* NEW_POST carrying a payload of RouterData or none and GET_FEED every    *)
(* policy of AllPolicies.                                                  *)
(*                                                                         *)
(* SpecClassify is the registry under the tabs of Tabs opening on every    *)
(* URL of ClassUrls and closing.                                           *)
(*                                                                         *)
(* SpecProducer is the three producers scanning every page of Doms and     *)
(* seeing their URL change, while the worker serves a session that posts   *)
(* and navigates, and CLEAR_FEED.                                          *)
(*                                                                         *)
(* SpecRegistry is the registry under one tab opening on, navigating to   *)
(* and loading every URL of RegistryUrls, getting the focus and closing.   *)
(*                                                                         *)
(* SpecIcon is the icon's listener under clicks, the settling of its API   *)
(* calls in any order and the closing of feed tabs.                        *)
(*                                                                         *)
(* SpecTimestamp is the twitter producer computing the timestamp of an     *)
(* article, for every datetime of Datetimes and every User-Name block of   *)
(* UserNameDivs.                                                           *)
(*                                                                         *)
(* No handler run by Spec, SpecPersist, SpecCascade, SpecDebounce or        *)
(* SpecSession reads a field of a   *)
(* post other than id, sourceTabId and scrapedAt, so there each id is      *)
(* announced with one payload, PostOf(id).                                 *)
(***************************************************************************)
\* The payload with which Spec announces an id: ids alternate between the
\* scrape times, and the post time runs against the scrape time.
IndexOf(id) == CHOOSE i \in 1..Len(IdNames) : IdNames[i] = id
PostOf(id) ==
    LET at == ((IndexOf(id) - 1) % MaxTime) + 1
    IN  [id |-> id, scrapedAt |-> at, timestamp |-> IF at = 1 THEN MaxTime ELSE 1]

\* The post that session tabId alone announces in SpecSession.
OwnId(tabId) == IdNames[tabId + 1]

\* The engagement mappings the three producers build: part_001:200-204,
\* part_002:235-239 and mastodon-scraper.js:185-189.
Counts == {0, MaxCount}
TwitterEngagement == [replies : Counts, retweets : Counts, likes : Counts]
BlueskyEngagement == [replies : Counts, reposts : Counts, likes : Counts]
MastodonEngagement == [replies : Counts, boosts : Counts, favorites : Counts]

\* The producer that announces an id: the ids are dealt out to the producers
\* in turn.
ProducerOf(id) == Producers[((IndexOf(id) - 2) % Len(Producers)) + 1]
EngagementsOf(producer) ==
    CASE producer = "twitter" -> TwitterEngagement
      [] producer = "bluesky" -> BlueskyEngagement
      [] producer = "mastodon" -> MastodonEngagement

\* A payload with the field engagement set.
WithEngagement(postData, engagement) ==
    [f \in DOMAIN postData \cup {"engagement"} |->
        IF f = "engagement" THEN engagement ELSE postData[f]]

\* A payload with the field platform set.
WithPlatform(postData, platform) ==
    [f \in DOMAIN postData \cup {"platform"} |->
        IF f = "platform" THEN platform ELSE postData[f]]

\* The payloads of SpecPlatform: those of ViewData with a non-empty id, each
\* from every producer.
PlatformData ==
    {WithPlatform(postData, Producers[k]) :
        postData \in {v \in ViewData : v.id # ""}, k \in 1..Len(Producers)}

\* The payloads of SpecReadOnly: each non-empty id with the platform of its
\* producer and a mapping whose counters are all 0 or all MaxCount.
FullData ==
    UNION {{WithPlatform(WithEngagement(PostOf(id), e), ProducerOf(id)) :
                e \in {m \in EngagementsOf(ProducerOf(id)) :
                          \A n, k \in DOMAIN m : m[n] = m[k]}} :
            id \in Ids \ {""}}

\* Every policy of the switch of getSortedFeed, and the unknown one.
AllPolicies == Policies \cup {"engagement", "platform"}

\* The payloads of SpecRouter: each non-empty id without a platform, and with
\* the platform of its producer.
RouterData ==
    {PostOf(id) : id \in Ids \ {""}}
        \cup {WithPlatform(PostOf(id), ProducerOf(id)) : id \in Ids \ {""}}

\* The payloads of SpecEngagement: each non-empty id with every engagement
\* mapping of its producer, and without a mapping.
EngagementData ==
    {PostOf(id) : id \in Ids \ {""}}
        \cup UNION {{WithEngagement(PostOf(id), e) : e \in EngagementsOf(ProducerOf(id))} :
                        id \in Ids \ {""}}

Next ==
    \/ OnInstalled
    \/ LoadComplete
    \/ ScanComplete
    \/ Tick
    \/ SaveTimerFired
    \/ \E update \in BOOLEAN : Restart(update)
    \/ \E id \in Ids : NewPost(TheTab, PostOf(id))
    \/ GetFeed("chronological")
    \/ ClearFeed
    \/ \E url \in Urls : TabCreated(TheTab, url)
    \/ \E url \in Urls : TabNavigated(TheTab, url)
    \/ TabLoaded(TheTab)
    \/ TabRemoved(TheTab)

Spec == Init /\ [][Next]_vars

\* The worker is installed and loaded, and no tab is open yet.
InitStore ==
    /\ unifiedFeed = <<>>
    /\ monitoredTabs = {}
    /\ saveTimeout = NoTimer
    /\ storage = Stored(<<>>)
    /\ loadPending = FALSE
    /\ loadResult = NoKey
    /\ installPending = FALSE
    /\ scanPending = FALSE
    /\ scanResult = {}
    /\ tabs = [t \in Tabs |-> NotOpened]
    /\ notified = <<>>
    /\ handled = [type |-> "loadFeedFromStorage"]
    /\ unflushed = <<>>
    /\ refresh = Idle
    /\ saveHealth = "none"
    /\ processed = [p \in ProducerNames |-> {}]
    /\ sends = [p \in ProducerNames |-> [id \in PageIds |-> 0]]
    /\ feedTabId = NoTab
    /\ feedTabs = [id \in FeedTabIds |-> NotOpened]
    /\ clicks = <<>>

NextPersist ==
    \/ LoadComplete
    \/ Tick
    \/ SaveTimerFired
    \/ Restart(FALSE)
    \/ \E id \in Ids : NewPost(TheTab, PostOf(id))
    \/ ClearFeed
    \/ TabCreated(TheTab, TimelineUrl)
    \/ TabRemoved(TheTab)

SpecPersist == InitStore /\ [][NextPersist]_vars

NextCascade ==
    \/ \E tabId \in Tabs, id \in Ids : NewPost(tabId, PostOf(id))
    \/ \E tabId \in Tabs : TabCreated(tabId, TimelineUrl)
    \/ \E tabId \in Tabs : TabRemoved(tabId)

SpecCascade == InitStore /\ [][NextCascade]_vars

NextDebounce ==
    \/ TickObserved
    \/ SaveTimerFired
    \/ \E id \in Ids : NewPost(TheTab, PostOf(id))
    \/ TabCreated(TheTab, TimelineUrl)
    \/ TabRemoved(TheTab)

SpecDebounce == InitStore /\ [][NextDebounce]_vars

NextSession ==
    \/ \E tabId \in Tabs : NewPost(tabId, PostOf(OwnId(tabId)))
    \/ \E tabId \in Tabs, url \in Urls : TabCreated(tabId, url)
    \/ \E tabId \in Tabs, url \in Urls : TabNavigated(tabId, url)
    \/ \E tabId \in Tabs : TabLoaded(tabId)
    \/ \E tabId \in Tabs : OnActivated(tabId, MaxTime)
    \/ \E tabId \in Tabs : TabRemoved(tabId)

SpecSession == InitStore /\ [][NextSession]_vars

NextView ==
    \/ \E postData \in ViewData : NewPost(TheTab, postData)
    \/ \E sortBy \in Policies : GetFeed(sortBy)
    \/ TabCreated(TheTab, TimelineUrl)

SpecView == InitStore /\ [][NextView]_vars

NextUpsert ==
    \/ \E postData \in PostData : NewPost(TheTab, postData)
    \/ ClearFeed
    \/ TabCreated(TheTab, TimelineUrl)

SpecUpsert == InitStore /\ [][NextUpsert]_vars

NextEngagement ==
    \/ \E postData \in EngagementData : NewPost(TheTab, postData)
    \/ GetFeed("engagement")
    \/ TabCreated(TheTab, TimelineUrl)

SpecEngagement == InitStore /\ [][NextEngagement]_vars

NextPlatform ==
    \/ \E postData \in PlatformData : NewPost(TheTab, postData)
    \/ GetFeed("platform")
    \/ TabCreated(TheTab, TimelineUrl)

SpecPlatform == InitStore /\ [][NextPlatform]_vars

NextReadOnly ==
    \/ Tick
    \/ SaveTimerFired
    \/ \E postData \in FullData : NewPost(TheTab, postData)
    \/ \E sortBy \in AllPolicies : GetFeed(sortBy)
    \/ TabCreated(TheTab, TimelineUrl)

SpecReadOnly == InitStore /\ [][NextReadOnly]_vars

NextRefresh ==
    \/ RefreshFeed
    \/ \E ok \in BOOLEAN : RefreshSettled(ok)
    \/ \E tabId \in Tabs : NewPost(tabId, PostOf(OwnId(tabId)))
    \/ \E tabId \in Tabs : TabCreated(tabId, TimelineUrl)
    \/ \E tabId \in Tabs : TabRemoved(tabId)

SpecRefresh == InitStore /\ [][NextRefresh]_vars

NextSaveFail ==
    \/ Tick
    \/ SaveTimerFired
    \/ SaveTimerFailed
    \/ \E id \in Ids : NewPost(TheTab, PostOf(id))
    \/ TabCreated(TheTab, TimelineUrl)
    \/ TabRemoved(TheTab)

SpecSaveFail == InitStore /\ [][NextSaveFail]_vars

NextRouter ==
    \/ \E postData \in RouterData : NewPost(TheTab, postData)
    \/ NewPostNoRecord(TheTab)
    \/ \E sortBy \in AllPolicies : GetFeed(sortBy)
    \/ OpenPost
    \/ RefreshFeed
    \/ \E ok \in BOOLEAN : RefreshSettled(ok)
    \/ ClearFeed
    \/ TabCreated(TheTab, TimelineUrl)

SpecRouter == InitStore /\ [][NextRouter]_vars

NextClassify ==
    \/ \E tabId \in Tabs, url \in ClassUrls : TabCreated(tabId, url)
    \/ \E tabId \in Tabs : TabRemoved(tabId)

SpecClassify == InitStore /\ [][NextClassify]_vars

NextProducer ==
    \/ \E producer \in ProducerNames, dom \in Doms : Scan(producer, dom)
    \/ \E producer \in ProducerNames : UrlChanged(producer)
    \/ NewPost(TheTab, PostOf(OwnId(TheTab)))
    \/ ClearFeed
    \/ TabCreated(TheTab, TimelineUrl)
    \/ \E url \in Urls : TabNavigated(TheTab, url)

SpecProducer == InitStore /\ [][NextProducer]_vars

\* The twitter producer has found an article on the page.
InitArticle ==
    /\ unifiedFeed = <<>>
    /\ monitoredTabs = {}
    /\ saveTimeout = NoTimer
    /\ storage = Stored(<<>>)
    /\ loadPending = FALSE
    /\ loadResult = NoKey
    /\ installPending = FALSE
    /\ scanPending = FALSE
    /\ scanResult = {}
    /\ tabs = [t \in Tabs |-> NotOpened]
    /\ notified = <<>>
    /\ handled \in [type : {"article"}, datetime : Datetimes,
                     userNamesDiv : UserNameDivs]
    /\ unflushed = <<>>
    /\ refresh = Idle
    /\ saveHealth = "none"
    /\ processed = [p \in ProducerNames |-> {}]
    /\ sends = [p \in ProducerNames |-> [id \in PageIds |-> 0]]
    /\ feedTabId = NoTab
    /\ feedTabs = [id \in FeedTabIds |-> NotOpened]
    /\ clicks = <<>>

NextRegistry ==
    \/ \E url \in RegistryUrls : TabCreated(TheTab, url)
    \/ \E url \in RegistryUrls : TabNavigated(TheTab, url)
    \/ TabLoaded(TheTab)
    \/ OnActivated(TheTab, MaxTime)
    \/ TabRemoved(TheTab)

SpecRegistry == InitStore /\ [][NextRegistry]_vars

NextIcon ==
    \/ IconClicked
    \/ \E i \in 1..MaxClicks : UpdateSettled(i)
    \/ \E i \in 1..MaxClicks : GetSettled(i)
    \/ \E i \in 1..MaxClicks : FocusSettled(i)
    \/ \E i \in 1..MaxClicks : FeedTabOpened(i)
    \/ \E i \in 1..MaxClicks : CreateResolved(i)
    \/ \E id \in FeedTabIds : FeedTabClosed(id)

SpecIcon == InitStore /\ [][NextIcon]_vars

NextTimestamp == ExtractTimestamp

SpecTimestamp == InitArticle /\ [][NextTimestamp]_vars

(***************************************************************************)
(* Properties.                                                             *)
(***************************************************************************)
FeedIds(feed) == {feed[i].id : i \in 1..Len(feed)}
Records(feed) == {feed[i] : i \in 1..Len(feed)}
EmptyId == ""

\* C1: in every reachable state of the feed store no two stored records
\* have the same id.
C1_UniqueIds ==
    \A i, j \in 1..Len(unifiedFeed) :
        i # j => unifiedFeed[i].id # unifiedFeed[j].id

\* A NEW_POST for an id that was already stored has just been handled with
\* the store full.
C1_Witness ==
    /\ handled.type = "NEW_POST"
    /\ handled.existingIndex >= 1
    /\ Len(unifiedFeed) = MAX_FEED_SIZE

\* C2: between handlers the store holds at most MAX_FEED_SIZE records.
C2_SizeBound == Len(unifiedFeed) <= MAX_FEED_SIZE

\* A NEW_POST has just overfilled the store and the trim has run.
C2_Witness ==
    /\ handled.type = "NEW_POST"
    /\ handled.evicted # <<>>
    /\ Len(unifiedFeed) = MAX_FEED_SIZE

\* C3: no NEW_POST or GET_FEED handler runs while the startup load of the
\* feed from durable storage is still pending.
C3_StartupBarrier ==
    ~(handled.type \in {"NEW_POST", "GET_FEED"} /\ loadPending)

\* C4: within a running process a stored id leaves the store only when the
\* trim evicts it, when the posts of its sourceTabId are cascade-deleted, or
\* on CLEAR_FEED.
C4_LeavesOnlyByDeletion ==
    [][\A i \in 1..Len(unifiedFeed) :
          unifiedFeed[i].id \notin FeedIds(unifiedFeed') =>
              \/ /\ handled'.type = "NEW_POST"
                 /\ unifiedFeed[i] \in Records(handled'.evicted)
              \/ /\ handled'.type \in {"onRemoved", "onUpdated"}
                 /\ handled'.tabId = unifiedFeed[i].sourceTabId
              \/ handled'.type = "CLEAR_FEED"
              \/ handled'.type = "start"]_vars

\* C5: when the close event of a session has been processed, the feed store
\* holds no record whose sourceTabId is that session.
C5_NoPostsOfClosedSession ==
    handled.type = "onRemoved" =>
        \A i \in 1..Len(unifiedFeed) : unifiedFeed[i].sourceTabId # handled.tabId

\* The records of old that survive the end of session tabId are those of new,
\* unchanged and in the same relative order, and none of them is tabId's.
OthersKept(old, new, tabId) ==
    /\ \A i \in 1..Len(new) : new[i].sourceTabId # tabId
    /\ \E at \in [1..Len(new) -> 1..Len(old)] :
          /\ \A i \in 1..Len(new) : new[i] = old[at[i]]
          /\ \A i, j \in 1..Len(new) : i < j => at[i] < at[j]
          /\ \A k \in 1..Len(old) :
                old[k].sourceTabId # tabId => \E i \in 1..Len(new) : at[i] = k

\* C6: ending a monitored session removes exactly the records whose
\* sourceTabId is that session; every other record stays, unchanged and in
\* the same relative order.
C6_CascadeExact ==
    [][\A tabId \in Tabs :
          (TabRemoved(tabId) /\ Monitored(monitoredTabs, tabId)) =>
              OthersKept(unifiedFeed, unifiedFeed', tabId)]_vars

\* A monitored session has just ended; posts of it were removed and a post of
\* another session is still stored.
C6_Witness ==
    /\ handled.type = "onRemoved"
    /\ handled.monitored
    /\ handled.removed >= 1
    /\ \E i \in 1..Len(unifiedFeed) :
          /\ unifiedFeed[i].sourceTabId # handled.tabId
          /\ tabs[unifiedFeed[i].sourceTabId] \in Urls

\* C7: when a NEW_POST overfills the store, the records retained are
\* MAX_FEED_SIZE of the records present, and no retained record has a smaller
\* scrapedAt than an evicted one, whatever the timestamps.
C7_EvictsOldestScrape ==
    [][LET tabId == handled'.tabId
           postData == handled'.data
       IN (/\ handled'.type = "NEW_POST"
           /\ NewPost(tabId, postData)
           /\ Len(unifiedFeed) = MAX_FEED_SIZE
           /\ postData.id \notin FeedIds(unifiedFeed)) =>
              LET present == Records(unifiedFeed)
                                \cup {[id |-> postData.id,
                                       scrapedAt |-> postData.scrapedAt,
                                       timestamp |-> postData.timestamp,
                                       sourceTabId |-> tabId]}
                  kept == Records(unifiedFeed')
              IN  /\ kept \subseteq present
                  /\ Cardinality(kept) = MAX_FEED_SIZE
                  /\ Len(unifiedFeed') = MAX_FEED_SIZE
                  /\ \A k \in kept, e \in present \ kept :
                        k.scrapedAt >= e.scrapedAt]_vars

\* The trim has just evicted a record whose timestamp is newer, and whose
\* scrapedAt is older, than those of a record it retained.
C7_Witness ==
    /\ handled.type = "NEW_POST"
    /\ \E e \in Records(handled.evicted), k \in Records(unifiedFeed) :
          /\ e.timestamp > k.timestamp
          /\ e.scrapedAt < k.scrapedAt

\* C8: a NEW_POST whose record has an empty id is rejected: the id is never
\* stored and no FEED_UPDATED is emitted for it.
C8_EmptyIdRejected ==
    /\ EmptyId \notin FeedIds(unifiedFeed)
    /\ (handled.type = "NEW_POST" /\ handled.id = EmptyId) => notified = <<>>

\* C9: a NEW_POST emits FEED_UPDATED with the record exactly when the
\* record's id was not in the store when the message was handled.
C9_NotifiesIffNew ==
    [][LET tabId == handled'.tabId
           postData == handled'.data
       IN (handled'.type = "NEW_POST" /\ NewPost(tabId, postData)) =>
              /\ (notified' # <<>>) <=> (postData.id \notin FeedIds(unifiedFeed))
              /\ \A i \in 1..Len(notified') :
                    /\ notified'[i].type = "FEED_UPDATED"
                    /\ notified'[i].newPost.id = postData.id]_vars

\* An id that was stored has just been ingested again, and nothing was
\* emitted.
C9_Witness ==
    /\ handled.type = "NEW_POST"
    /\ handled.existingIndex >= 1
    /\ notified = <<>>

\* C10: ingesting an id that is already stored replaces that record at its
\* position with the new record; the other records, the number of records and
\* the set of stored ids are unchanged.
C10_ReplacesInPlace ==
    [][LET tabId == handled'.tabId
           postData == handled'.data
       IN (/\ handled'.type = "NEW_POST"
           /\ NewPost(tabId, postData)
           /\ postData.id \in FeedIds(unifiedFeed)) =>
              /\ Len(unifiedFeed') = Len(unifiedFeed)
              /\ FeedIds(unifiedFeed') = FeedIds(unifiedFeed)
              /\ \A i \in 1..Len(unifiedFeed) :
                    IF unifiedFeed[i].id = postData.id
                    THEN /\ unifiedFeed'[i].id = postData.id
                         /\ unifiedFeed'[i].scrapedAt = postData.scrapedAt
                         /\ unifiedFeed'[i].timestamp = postData.timestamp
                         /\ unifiedFeed'[i].sourceTabId = tabId
                         /\ DOMAIN unifiedFeed'[i] =
                                DOMAIN postData \cup {"sourceTabId"}
                    ELSE unifiedFeed'[i] = unifiedFeed[i]]_vars

\* The first record of a full store has just been replaced by a record with
\* other fields, older than every other stored record.
C10_Witness ==
    /\ handled.type = "NEW_POST"
    /\ handled.existingIndex = 1
    /\ Len(unifiedFeed) = MAX_FEED_SIZE
    /\ handled.changed
    /\ \A i \in 2..Len(unifiedFeed) :
          unifiedFeed[i].scrapedAt > unifiedFeed[1].scrapedAt

\* C11: a NEW_POST that repeats the NEW_POST handled just before it, with the
\* same id, the same payload and the same session, leaves the feed store as
\* the first one left it: same records, same order, same size.
C11_Idempotent ==
    [][LET tabId == handled'.tabId
           postData == handled'.data
       IN (/\ handled.type = "NEW_POST"
           /\ handled'.type = "NEW_POST"
           /\ handled.data = postData
           /\ handled.tabId = tabId
           /\ NewPost(tabId, postData)) =>
              unifiedFeed' = unifiedFeed]_vars

\* A NEW_POST has just been handled whose record was already stored, field
\* for field, by an earlier NEW_POST of the same session.
C11_Witness ==
    /\ handled.type = "NEW_POST"
    /\ handled.existingIndex >= 1
    /\ ~handled.changed
    /\ Len(unifiedFeed) >= 2

\* A NEW_POST, or the end of a monitored session, has just been handled.
Mutated ==
    \/ handled'.type = "NEW_POST" /\ NewPost(handled'.tabId, handled'.data)
    \/ /\ handled'.type = "onRemoved"
       /\ handled'.monitored
       /\ TabRemoved(handled'.tabId)

C13_LossWithinOneWindow ==
    \A i \in 1..Len(unflushed) :
        (unflushed[i].age > DEBOUNCE_MS /\ unflushed[i].post \in Records(unifiedFeed)) =>
            (storage.has /\ unflushed[i].post \in Records(storage.unifiedFeed))

\* C14: every write of the storage key, by the save timer, by CLEAR_FEED or
\* by the onInstalled listener, stores the feed the worker holds in memory
\* when the write is issued.
C14_WritesWholeFeed ==
    [][(OnInstalled \/ SaveTimerFired \/ ClearFeed) =>
          storage' = Stored(unifiedFeed')]_vars

\* What clearFeed passes to notifyPopup.
FeedCleared == <<[type |-> "FEED_CLEARED"]>>

\* C15: CLEAR_FEED leaves the store empty, the storage key written with the
\* empty feed and FEED_CLEARED emitted; and as long as no listener has run
\* since (no message, so no NEW_POST, and no tab event; only timers and
\* pending continuations), the storage key still holds the empty feed.
C15_ClearStaysCleared ==
    /\ handled.type = "CLEAR_FEED" =>
          /\ unifiedFeed = <<>>
          /\ storage = Stored(<<>>)
          /\ notified = FeedCleared
    /\ notified = FeedCleared => storage = Stored(<<>>)

\* C16: when the last continuation of a start has run (the load, the
\* install handler and its scan are all done), every open tab whose URL is
\* monitorable is in the registry.
C16_RegistryRebuilt ==
    (/\ handled.type \in {"loadFeedFromStorage", "scanExistingTabs"}
     /\ ~loadPending /\ ~installPending /\ ~scanPending) =>
        \A t \in OpenTabs :
            isSocialMediaTab(tabs[t]) => Monitored(monitoredTabs, t)

\* C17: when a registered session navigates to a URL that is not
\* monitorable, its entry leaves the registry and the feed keeps exactly the
\* records of the other sessions; when a session finishes loading a
\* monitorable URL, the registry holds one entry for it, with that URL and its
\* platform, and the entries of the other sessions and the feed are as before.
C17_NavigationTracksSession ==
    [][\A tabId \in Tabs :
          /\ \A url \in Urls :
                (/\ TabNavigated(tabId, url)
                 /\ Monitored(monitoredTabs, tabId)
                 /\ ~isSocialMediaTab(url)) =>
                    /\ ~Monitored(monitoredTabs', tabId)
                    /\ {e \in monitoredTabs' : e.id # tabId}
                            = {e \in monitoredTabs : e.id # tabId}
                    /\ OthersKept(unifiedFeed, unifiedFeed', tabId)
          /\ (TabLoaded(tabId) /\ isSocialMediaTab(tabs[tabId])) =>
                /\ \E e \in monitoredTabs' :
                      /\ e.id = tabId
                      /\ e.url = tabs[tabId]
                      /\ e.platform = getPlatform(tabs[tabId])
                /\ Cardinality({e \in monitoredTabs' : e.id = tabId}) = 1
                /\ {e \in monitoredTabs' : e.id # tabId}
                        = {e \in monitoredTabs : e.id # tabId}
                /\ unifiedFeed' = unifiedFeed]_vars

\* A registered session has just navigated to a page that is not
\* monitorable: it is out of the registry, posts of it were removed, and a
\* post of another open session is still stored.
C17_Witness ==
    /\ handled.type = "onUpdated"
    /\ handled.monitored
    /\ handled.removed >= 1
    /\ tabs[handled.tabId] \in Urls
    /\ ~isSocialMediaTab(tabs[handled.tabId])
    /\ ~Monitored(monitoredTabs, handled.tabId)
    /\ \E i \in 1..Len(unifiedFeed) : unifiedFeed[i].sourceTabId # handled.tabId

\* C18: for a session that is not in the registry, the end of the session,
\* its navigation to a page that is not monitorable (both stopMonitoring)
\* and its activation (touch) leave the registry, the feed and the save
\* timer as they were.
C18_UnknownSessionNoOp ==
    [][\A tabId \in Tabs :
          ~Monitored(monitoredTabs, tabId) =>
              /\ TabRemoved(tabId) =>
                    UNCHANGED <<monitoredTabs, unifiedFeed, saveTimeout>>
              /\ \A url \in Urls :
                    (TabNavigated(tabId, url) /\ ~isSocialMediaTab(url)) =>
                        UNCHANGED <<monitoredTabs, unifiedFeed, saveTimeout>>
              /\ OnActivated(tabId, MaxTime) =>
                    UNCHANGED <<monitoredTabs, unifiedFeed, saveTimeout>>]_vars

\* A session that was not in the registry has just ended; the registry
\* holds another session and the feed still holds a post of the ended one.
C18_Witness ==
    /\ handled.type = "onRemoved"
    /\ ~handled.monitored
    /\ monitoredTabs # {}
    /\ \E i \in 1..Len(unifiedFeed) : unifiedFeed[i].sourceTabId = handled.tabId

\* C19: the response to a GET_FEED whose policy is none of those the sort
\* engine knows is the response to a GET_FEED with policy 'chronological'.
C19_UnknownPolicyChronological ==
    (/\ handled.type = "GET_FEED"
     /\ handled.sortBy \notin {"chronological", "chronological-old",
                               "engagement", "platform"}) =>
        handled.feed = getSortedFeed(unifiedFeed, "chronological")

\* The key of the chronological order: the timestamp if the record has one,
\* whatever its value, and the scrapedAt otherwise.
ChronologicalKey(post) ==
    IF post.timestamp # NoTimestamp THEN post.timestamp ELSE post.scrapedAt

\* view holds the records of feed, each once, by descending key, records of
\* equal key in their order in feed.
IsChronological(view, feed) ==
    /\ Len(view) = Len(feed)
    /\ \E at \in [1..Len(feed) -> 1..Len(feed)] :
          /\ \A i, j \in 1..Len(feed) : i # j => at[i] # at[j]
          /\ \A i \in 1..Len(feed) : view[i] = feed[at[i]]
          /\ \A i, j \in 1..Len(feed) :
                i < j =>
                    \/ ChronologicalKey(view[i]) > ChronologicalKey(view[j])
                    \/ /\ ChronologicalKey(view[i]) = ChronologicalKey(view[j])
                       /\ at[i] < at[j]

\* C20: the response to a GET_FEED with policy 'chronological' is a
\* permutation of the store by descending key (the timestamp if present,
\* 0 included, else the scrapedAt), ties in the order of the store.
C20_ChronologicalView ==
    (handled.type = "GET_FEED" /\ handled.sortBy = "chronological") =>
        IsChronological(handled.feed, unifiedFeed)

\* The counter of a family of names: the one the record carries under any
\* of the names, and 0 if it carries none.
FamilyCount(post, names) ==
    IF \E n \in names : "engagement" \in DOMAIN post /\ n \in DOMAIN post.engagement
    THEN post.engagement[CHOOSE n \in names :
                            "engagement" \in DOMAIN post /\ n \in DOMAIN post.engagement]
    ELSE 0

\* Replies plus the reposts family plus the likes family, each once.
CanonicalSum(post) ==
    FamilyCount(post, {"replies"})
        + FamilyCount(post, {"retweets", "reposts", "boosts"})
        + FamilyCount(post, {"likes", "favorites"})

\* The last listener answered GET_FEED with the policy sortBy.
Answered(sortBy) ==
    handled.type = "GET_FEED" /\ handled.sortBy = sortBy /\ handled.responded

C22_PlatformView ==
    Answered("platform") =>
        /\ Len(handled.feed) = Len(unifiedFeed)
        /\ Records(handled.feed) = Records(unifiedFeed)
        /\ \A i, j \in 1..Len(handled.feed) :
              i < j =>
                /\ localeCompare(handled.feed[i].platform, handled.feed[j].platform) <= 0
                /\ handled.feed[i].platform = handled.feed[j].platform =>
                      ChronologicalKey(handled.feed[i]) >= ChronologicalKey(handled.feed[j])

\* C23: a GET_FEED, whatever its policy, leaves the feed store with its
\* records in their order, the session registry, the save timer and durable
\* storage as they were; the ordering is that of the sequence it returns.
\* The step of a GET_FEED is the one that records it in handled.
C23_GetFeedReadOnly ==
    [][(handled' # handled /\ handled'.type = "GET_FEED") =>
            /\ unifiedFeed' = unifiedFeed
            /\ monitoredTabs' = monitoredTabs
            /\ saveTimeout' = saveTimeout
            /\ storage' = storage]_vars

\* A GET_FEED returned the records in another order than the store holds
\* them, while a session is registered and a save is pending.
C23_Witness ==
    /\ Answered("engagement")
    /\ Len(unifiedFeed) = MAX_FEED_SIZE
    /\ handled.feed # unifiedFeed
    /\ monitoredTabs # {}
    /\ saveTimeout > 0

\* C24: the engagement mapping of every record of the store that came with
\* one has exactly the counters replies, reposts and likes.
C24_CanonicalEngagement ==
    \A i \in 1..Len(unifiedFeed) :
        "engagement" \in DOMAIN unifiedFeed[i] =>
            DOMAIN unifiedFeed[i].engagement = {"replies", "reposts", "likes"}

\* C25: when refreshAllTabs returns, a RESCAN has been sent to every session
\* of the registry, whichever sends were rejected before, and no step of
\* REFRESH_FEED or of refreshAllTabs changes the feed store or the registry.
C25_RefreshReachesAll ==
    [][(/\ handled' # handled \/ refresh' # refresh
        /\ handled'.type \in {"REFRESH_FEED", "refreshAllTabs"}) =>
            /\ ~refresh'.running => {e.id : e \in monitoredTabs'} \subseteq refresh'.sent
            /\ unifiedFeed' = unifiedFeed
            /\ monitoredTabs' = monitoredTabs]_vars

\* refreshAllTabs has returned after a send to each of the registered
\* sessions, every one of which was rejected, with posts in the store.
C25_Witness ==
    /\ handled.type = "refreshAllTabs"
    /\ ~refresh.running
    /\ Cardinality(monitoredTabs) = MaxTabs
    /\ refresh.sent = {e.id : e \in monitoredTabs}
    /\ refresh.failed = refresh.sent
    /\ unifiedFeed # <<>>

\* The step is the timer callback of the scheduled save.
SaveCallback == saveTimeout = 0 /\ saveTimeout' = NoTimer

MessageTypes == {"NEW_POST", "GET_FEED", "OPEN_POST", "REFRESH_FEED", "CLEAR_FEED"}

\* C27: the listener runs to its end and calls sendResponse for every
\* message, whatever the message carries and the store holds.
C27_EveryMessageAnswered ==
    handled.type \in MessageTypes => handled.responded

\* The platform whose domain is the host of a URL, "none" for another host.
DomainOf(url) ==
    CASE url \in {TimelineUrl, StatusUrl, SearchUrl, XProfileUrl} -> "twitter"
      [] url = BskyProfileUrl -> "bluesky"
      [] url \in {MastodonHomeUrl, MastodonProfileUrl} -> "mastodon"
      [] url \in {OtherUrl, NetflixUrl} -> "none"

\* The kind of page the path of a URL names.
PageOf(url) ==
    CASE url \in {TimelineUrl, MastodonHomeUrl} -> "timeline"
      [] url = StatusUrl -> "status"
      [] url = SearchUrl -> "search"
      [] url \in {XProfileUrl, BskyProfileUrl, MastodonProfileUrl} -> "profile"
      [] url \in {OtherUrl, NetflixUrl} -> "other"

\* C28: a tab opened on a URL is registered if the URL is the timeline of a
\* platform domain, and is not registered if the URL is a profile, status,
\* search or trending page of a platform domain or is on no platform domain.
C28_Classification ==
    handled.type = "onCreated" =>
        LET url == tabs[handled.tabId]
            registered == Monitored(monitoredTabs, handled.tabId)
        IN  /\ (DomainOf(url) # "none" /\ PageOf(url) = "timeline") => registered
            /\ (/\ DomainOf(url) # "none"
                /\ PageOf(url) \in {"profile", "status", "search", "trending"}) =>
                    ~registered
            /\ DomainOf(url) = "none" => ~registered

\* C29: a producer sends no id a second time while its set has not been
\* emptied, and a set loses ids only when the URL observer of the bluesky or
\* the mastodon producer runs: never in the twitter producer, and in no step
\* of the worker.
C29_ProducerSendsOnce ==
    [][/\ \A p \in ProducerNames, id \in PageIds : sends'[p][id] <= 1
       /\ \A p \in ProducerNames :
             ~(processed[p] \subseteq processed'[p]) =>
                /\ p \in {"bluesky", "mastodon"}
                /\ handled'.type = "urlchange"
                /\ handled'.producer = p]_vars

\* The twitter producer has scanned a page showing a post it sent before,
\* and sent nothing, after the store was emptied.
C29_Witness ==
    /\ handled.type = "scan"
    /\ handled.producer = "twitter"
    /\ handled.sent = <<>>
    /\ \E id \in handled.shown :
          /\ id \in processed["twitter"]
          /\ sends["twitter"][id] = 1
    /\ unifiedFeed = <<>>
    /\ ~Monitored(monitoredTabs, TheTab)
    /\ TheTab \in OpenTabs

\* C30: every record a scan sends has a non-empty id, which an element of
\* the page showed, and the platform twitter, bluesky or mastodon.
C30_SentRecordsHaveId ==
    handled.type = "scan" =>
        \A i \in 1..Len(handled.sent) :
            /\ handled.sent[i].id # ""
            /\ handled.sent[i].platform \in {"twitter", "bluesky", "mastodon"}
            /\ handled.sent[i].id \in handled.shown

\* A scan of a page with an element whose permalink yields no id and an
\* element of a post has sent the one record of the post.
C30_Witness ==
    /\ handled.type = "scan"
    /\ handled.dropped
    /\ Len(handled.sent) = 1
    /\ handled.sent[1].id \in PageIds

\* C31: when a NEW_POST has emitted FEED_UPDATED, the record it announced is
\* in the store when the handler returns, also when the push overfilled the
\* store and the trim ran.  Records with an empty id are left to C8.
C31_AnnouncedIsStored ==
    (/\ handled.type = "NEW_POST"
     /\ "data" \in DOMAIN handled
     /\ handled.id # EmptyId) =>
        \A i \in 1..Len(notified) :
            notified[i].type = "FEED_UPDATED" =>
                \E k \in 1..Len(unifiedFeed) : unifiedFeed[k] = notified[i].newPost

\* C32: after NEW_POST for an id from session B the stored record of that id
\* has sourceTabId B, whichever session announced the id before; so the end
\* of a monitored session removes the ids it was the last to announce and
\* leaves every record another session announced after it.
C32_OwnershipTransfers ==
    [][/\ (handled'.type = "NEW_POST" /\ "data" \in DOMAIN handled') =>
              \A k \in 1..Len(unifiedFeed') :
                  unifiedFeed'[k].id = handled'.id =>
                      unifiedFeed'[k].sourceTabId = handled'.tabId
       /\ (handled'.type = "onRemoved" /\ Monitored(monitoredTabs, handled'.tabId)) =>
              \A k \in 1..Len(unifiedFeed) :
                  IF unifiedFeed[k].sourceTabId = handled'.tabId
                  THEN unifiedFeed[k].id \notin FeedIds(unifiedFeed')
                  ELSE unifiedFeed[k] \in Records(unifiedFeed')]_vars

\* A session has just announced, with the same fields, an id that was stored
\* for the other session, which is still monitored; the record is now its own.
C32_Witness ==
    /\ handled.type = "NEW_POST"
    /\ handled.existingIndex >= 1
    /\ handled.changed
    /\ handled.data = PostOf(handled.id)
    /\ unifiedFeed[handled.existingIndex].sourceTabId = handled.tabId
    /\ \E tabId \in Tabs \ {handled.tabId} : Monitored(monitoredTabs, tabId)
    /\ Monitored(monitoredTabs, handled.tabId)

\* C33: the timestamp of a record of the twitter producer is a number: the
\* datetime of the time element when there is one, and else the time parsed
\* from the relative-time text or the time of the extraction; a datetime that
\* was read is not replaced by a fragment of the User-Name text.
C33_NumericTimestamp ==
    handled.type = "extractTweetData" =>
        /\ handled.timestamp.kind = "number"
        /\ handled.datetime # NoTimestamp =>
                handled.timestamp.num = handled.datetime
        /\ handled.datetime = NoTimestamp =>
                handled.timestamp.num \in {MaxTime - 1, MaxTime}

\* C34: at most one feed tab opened by the icon is open at any time.
C34_OneFeedTab ==
    Cardinality({id \in FeedTabIds : feedTabs[id] = Open}) <= 1

\* C35: when a tab is closed unmonitorTab runs twice, and the registry, the
\* feed store and the save timer are then as the first call alone leaves
\* them: the second call removes no post and does not arm the timer again.
C35_UnmonitorIdempotent ==
    [][handled'.type = "onRemoved" =>
          LET once == unmonitorTab(Engine, handled'.tabId)
          IN  /\ monitoredTabs' = once.reg
              /\ unifiedFeed' = once.feed
              /\ saveTimeout' = once.timer
              /\ unmonitorTab(once, handled'.tabId) = once]_vars

\* A monitored session has just been closed: its posts are gone, the timer
\* is armed and the post of the other session is still stored.
C35_Witness ==
    /\ handled.type = "onRemoved"
    /\ handled.monitored
    /\ handled.removed >= 1
    /\ saveTimeout = DEBOUNCE_MS
    /\ ~Monitored(monitoredTabs, handled.tabId)
    /\ \E i \in 1..Len(unifiedFeed) : unifiedFeed[i].sourceTabId # handled.tabId

\* C36: every entry of the registry has a URL that isSocialMediaTab accepts
\* and the platform twitter, bluesky or mastodon, never unknown.
C36_RegistryEntriesClassified ==
    \A e \in monitoredTabs :
        /\ isSocialMediaTab(e.url)
        /\ e.platform \in {"twitter", "bluesky", "mastodon"}
        /\ e.platform # "unknown"

\* A registered tab has just got the focus; its entry is a mastodon
\* session of a host that only the pattern recognises, and the tab has
\* since navigated to another page.
C36_Witness ==
    /\ handled.type = "onActivated"
    /\ handled.monitored
    /\ \E e \in monitoredTabs : e.url = ExchangeUrl /\ e.platform = "mastodon"
    /\ \E e \in monitoredTabs : tabs[e.id] # e.url

====
